---- MODULE Spec2Model ----
(***************************************************************************)
(* pbtsdb: the subscription lifecycle of CollectionFactory                 *)
(* (src/src/collection.ts).  The factory keeps a two-level registry        *)
(* (collection name -> subscription key -> SubscriptionState), opens one   *)
(* real-time channel per accepted subscribe, mirrors the change events of  *)
(* an open channel into the local collection, and retries a failed open    *)
(* with exponential backoff.                                               *)
(*                                                                         *)
(* JavaScript objects have identity: a Map or a SubscriptionState captured *)
(* by a pending promise callback stays reachable from that callback after  *)
(* the registry dropped it.  The model therefore keeps a heap of Map       *)
(* objects and of SubscriptionState objects, and every asynchronous        *)
(* continuation works on the objects its closure captured.                 *)
(***************************************************************************)
EXTENDS Integers, Sequences, FiniteSets, Bags, TLC

\* ---------------------------------------------------------------- bounds
\* Accepted subscribe calls (each allocates one SubscriptionState).
MaxSubs == 3
\* Collection instances create() hands out per collection name.
MaxInst == 2
\* Change events the transport delivers in one behaviour.
MaxEvents == 2

\* Segments of a field path (relation traversal a.b.c).
MaxPath == 2
\* Values in the array of an in expression.
MaxValues == 3
\* Operands of an and/or expression.
MaxOperands == 2
\* Entries of an order-by array.
MaxSorts == 2
\* The most keys one useStore call is given.
MaxKeys == 3

\* ------------------------------------------------------ program constants
MAX_RECONNECT_ATTEMPTS == 5
BASE_RECONNECT_DELAY == 1000

\* ------------------------------------------------------------ value sets
Collections == {"jobs", "books"}
RecordIds == {"r1"}
\* An absent (undefined, or otherwise falsy) recordId argument.
NoRecordId == ""
RecordArgs == RecordIds \cup {NoRecordId}
Keys == {"*"} \cup RecordIds
SubIds == 1 .. MaxSubs
\* The absent reference (undefined) in a field that holds an object id.
NoRef == 0
\* RealtimeEvent.action is an arbitrary string; "other" stands for every
\* string that is none of the three the handler switches on.
EventActions == {"create", "update", "delete", "other"}

\* const subscriptionKey = recordId || '*'
SubscriptionKey(recordId) == IF recordId = NoRecordId THEN "*" ELSE recordId

\* The unsubscribe functions a SubscriptionState can hold: the no-op
\* placeholder made by the subscribe call s, the handle the transport
\* returned for the initial open of call s, and the handle it returned for
\* a reopen made by the reconnect loop that the failure of call s started.
Placeholder(s) == [kind |-> "placeholder", id |-> s]
OpenHandle(s) == [kind |-> "open", id |-> s]
ReopenHandle(s) == [kind |-> "reopen", id |-> s]

VARIABLES
    subscriptions,  \* this.subscriptions: collection name -> Map id | NoRef
    maps,           \* heap of inner Map objects: Map id -> key -> state id | NoRef
    states,         \* heap of SubscriptionState objects
    calls,          \* per accepted subscribe: the arguments its closures captured
    opens,          \* per accepted subscribe: the initial channel-open promise
    loops,          \* per accepted subscribe: the handleReconnection call its failure made
    channels,       \* handles of the channels that are open at the transport
    instances,      \* collection name -> number of instances create() returned
    timers,         \* accepted subscribes whose setInterval is still scheduled
    nSubs,          \* accepted subscribe calls so far
    delivered,      \* events the transport delivered, in delivery order
    batches,        \* writeBatch calls on the local collections, in order
    uncaught,       \* failures that reached a caller (thrown or unhandled rejection)
    limits,         \* what the application and the transport do at most in this run
    query,          \* the call of the query converter or of the loader under way
    last            \* the public operation the last step performed, and its effects

vars == <<subscriptions, maps, states, calls, opens, loops, channels, instances,
          timers, nSubs, delivered, batches, uncaught, limits, query, last>>

\* ------------------------------------------------------------ initial state
NoCall == [c |-> "", k |-> "", inst |-> 0, map |-> NoRef]
NoState == [unsubscribe |-> Placeholder(0), reconnectAttempts |-> 0,
            isReconnecting |-> FALSE]
NoLoop == [pc |-> "none", target |-> NoRef, map |-> NoRef, delay |-> 0, attempts |-> 0]
\* A handleReconnection call that has returned: it holds nothing any more.
LoopDone == [NoLoop EXCEPT !.pc = "done"]
EmptyMap == [k \in Keys |-> NoRef]
Async == [op |-> "async", c |-> "", k |-> "", invoked |-> EmptyBag, opened |-> 0]
\* No call of the query converter or of the loader is under way.
NoQuery == [fn |-> "none"]

\* A run is bounded in one of five ways.  The application uses
\*   - one collection instance and only its whole-collection key, with up to
\*     MaxSubs accepted subscribe calls;
\*   - every collection and key, with one accepted subscribe call fewer;
\*   - one collection and every key, with one accepted subscribe call fewer,
\*     and the health-check interval elapses during the run;
\*   - up to MaxInst instances of one collection and only its whole-collection
\*     key, with two accepted subscribe calls fewer, and the transport
\*     delivers up to MaxEvents events;
\*   - one collection and every key, with one accepted subscribe call fewer,
\*     and the transport opens every channel it is asked for and delivers up
\*     to MaxEvents events, all of them updates.
\* Only in the last does the transport reject no open.
Limits ==
    {[collections |-> {"jobs"}, records |-> {NoRecordId}, subs |-> MaxSubs,
      insts |-> 1, events |-> 0, ticks |-> FALSE, rejects |-> TRUE,
      actions |-> EventActions],
     [collections |-> Collections, records |-> RecordArgs, subs |-> MaxSubs - 1,
      insts |-> 1, events |-> 0, ticks |-> FALSE, rejects |-> TRUE,
      actions |-> EventActions],
     [collections |-> {"jobs"}, records |-> RecordArgs, subs |-> MaxSubs - 1,
      insts |-> 1, events |-> 0, ticks |-> TRUE, rejects |-> TRUE,
      actions |-> EventActions],
     [collections |-> {"jobs"}, records |-> {NoRecordId}, subs |-> MaxSubs - 2,
      insts |-> MaxInst, events |-> MaxEvents, ticks |-> FALSE, rejects |-> TRUE,
      actions |-> EventActions],
     [collections |-> {"jobs"}, records |-> RecordArgs, subs |-> MaxSubs - 1,
      insts |-> 1, events |-> MaxEvents, ticks |-> FALSE, rejects |-> FALSE,
      actions |-> {"update"}]}

Init ==
    /\ limits \in Limits
    /\ subscriptions = [c \in Collections |-> NoRef]
    /\ maps = [m \in SubIds |-> EmptyMap]
    /\ states = [s \in SubIds |-> NoState]
    /\ calls = [s \in SubIds |-> NoCall]
    /\ opens = [s \in SubIds |-> "none"]
    /\ loops = [s \in SubIds |-> NoLoop]
    /\ channels = {}
    /\ instances = [c \in Collections |-> 0]
    /\ timers = {}
    /\ nSubs = 0
    /\ delivered = <<>>
    /\ batches = <<>>
    /\ uncaught = {}
    /\ query = NoQuery
    /\ last = Async


\* ------------------------------------------------------------------ helpers
Pow2(n) == 2 ^ n

\* The add/remove of one handle to/from a bag of invoked handles.
Invoke(h) == SetToBag({h})

\* Calling an unsubscribe function: the placeholder does nothing, a handle
\* the transport returned closes its channel.
Closed(invoked) == {h \in BagToSet(invoked) : h.kind # "placeholder"}

Sync(op, c, key, invoked, opened) ==
    [op |-> op, c |-> c, k |-> key, invoked |-> invoked, opened |-> opened]

\* isSubscribed(collectionName, recordId)
IsSubscribed(c, recordId) ==
    LET collectionSubs == subscriptions[c] IN
    IF collectionSubs = NoRef THEN FALSE
    ELSE maps[collectionSubs][SubscriptionKey(recordId)] # NoRef

\* ------------------------------------------------- subscribeToCollection
\* The guard applied to single-record keys only.
AlreadySubscribedRecordOnly(c, key) ==
    /\ key # "*"
    /\ subscriptions[c] # NoRef
    /\ maps[subscriptions[c]][key] # NoRef

\* The guard remembering every key that was ever subscribed.
AlreadySubscribedEver(c, key) ==
    \E s \in 1 .. nSubs : calls[s].c = c /\ calls[s].k = key

\* if (collectionSubs.has(subscriptionKey)) return
AlreadySubscribed(c, key) ==
    /\ subscriptions[c] # NoRef
    /\ maps[subscriptions[c]][key] # NoRef

\* Everything subscribeToCollection does; op names the public operation
\* that called it.  It leaves `instances` to its caller.
SubscribeToCollection(c, inst, recordId, op) ==
    LET key == SubscriptionKey(recordId)
        s == nSubs + 1
        collectionSubs == IF subscriptions[c] = NoRef THEN s ELSE subscriptions[c]
    IN
    IF AlreadySubscribed(c, key)
    THEN /\ last' = Sync(op, c, key, EmptyBag, 0)
         /\ UNCHANGED <<subscriptions, maps, states, calls, opens, loops, channels,
                        timers, nSubs, delivered, batches, uncaught, limits, query>>
    ELSE /\ nSubs < limits.subs
         /\ nSubs' = s
         /\ subscriptions' = [subscriptions EXCEPT ![c] = collectionSubs]
         /\ maps' = [maps EXCEPT ![collectionSubs][key] = s]
         /\ states' = [states EXCEPT ![s] =
                [unsubscribe |-> Placeholder(s), reconnectAttempts |-> 0,
                 isReconnecting |-> FALSE]]
         /\ calls' = [calls EXCEPT ![s] =
                [c |-> c, k |-> key, inst |-> inst, map |-> collectionSubs]]
         /\ opens' = [opens EXCEPT ![s] = "pending"]
         /\ timers' = timers \cup {s}
         /\ last' = Sync(op, c, key, EmptyBag, 1)
         /\ UNCHANGED <<loops, channels, delivered, batches, uncaught, limits, query>>

\* collection.subscribe(recordId) on instance inst of collection c
Subscribe(c, inst, recordId) ==
    /\ inst \in 1 .. instances[c]
    /\ recordId \in limits.records
    /\ SubscribeToCollection(c, inst, recordId, "subscribe")
    /\ UNCHANGED instances

\* create() subscribing to a record instead of the whole collection.
CreateSubscribeSomeRecord == "r1"

\* The recordId create() passes to subscribeToCollection: none.
CreateSubscribeRecordId == NoRecordId

\* factory.create(c)
Create(c) ==
    /\ c \in limits.collections
    /\ instances[c] < limits.insts
    /\ instances' = [instances EXCEPT ![c] = @ + 1]
    /\ SubscribeToCollection(c, instances[c] + 1, CreateSubscribeRecordId, "create")

\* --------------------------------------------- unsubscribeFromCollection
\* unsubscribeFromCollection deleting the record without calling its handle.
UnsubscribeWithoutCall(c, key) == EmptyBag

\* unsubscribeFromCollection calling the whole-collection handle whatever the key.
UnsubscribeInvokesWildcard(c, key) ==
    LET state == maps[subscriptions[c]]["*"] IN
    IF state # NoRef THEN Invoke(states[state].unsubscribe) ELSE EmptyBag

\* The handles unsubscribeFromCollection calls.
UnsubscribeInvocations(c, key) ==
    LET state == maps[subscriptions[c]][key] IN
    IF state # NoRef THEN Invoke(states[state].unsubscribe) ELSE EmptyBag

UnsubscribeFromCollection(c, recordId) ==
    LET collectionSubs == subscriptions[c]
        key == SubscriptionKey(recordId)
    IN
    IF collectionSubs = NoRef
    THEN /\ last' = Sync("unsubscribe", c, key, EmptyBag, 0)
         /\ UNCHANGED <<subscriptions, maps, channels>>
    ELSE LET invoked == UnsubscribeInvocations(c, key)
             after == [maps[collectionSubs] EXCEPT ![key] = NoRef]
         IN /\ channels' = channels \ Closed(invoked)
            /\ maps' = [maps EXCEPT ![collectionSubs] = after]
            /\ subscriptions' =
                 IF \A k \in Keys : after[k] = NoRef
                 THEN [subscriptions EXCEPT ![c] = NoRef]
                 ELSE subscriptions
            /\ last' = Sync("unsubscribe", c, key, invoked, 0)

\* collection.unsubscribe(recordId)
Unsubscribe(c, recordId) ==
    /\ instances[c] >= 1
    /\ recordId \in limits.records
    /\ UnsubscribeFromCollection(c, recordId)
    /\ UNCHANGED <<states, calls, opens, loops, instances, timers, nSubs,
                   delivered, batches, uncaught, limits, query>>

\* ------------------------------------------------------- unsubscribeAll
RECURSIVE SumBags(_, _)
SumBags(f, S) ==
    IF S = {} THEN EmptyBag
    ELSE LET x == CHOOSE y \in S : TRUE IN f[x] (+) SumBags(f, S \ {x})

\* unsubscribeAll calling only the whole-collection handle.
UnsubscribeAllWildcardOnly(c) ==
    LET state == maps[subscriptions[c]]["*"] IN
    IF state # NoRef THEN Invoke(states[state].unsubscribe) ELSE EmptyBag

\* The handles unsubscribeAll calls: one call per value of the inner Map.
UnsubscribeAllInvocations(c) ==
    LET collectionSubs == maps[subscriptions[c]]
        present == {k \in Keys : collectionSubs[k] # NoRef}
    IN SumBags([k \in present |-> Invoke(states[collectionSubs[k]].unsubscribe)],
               present)

UnsubscribeAllOf(c) ==
    IF subscriptions[c] = NoRef
    THEN /\ last' = Sync("unsubscribeAll", c, "", EmptyBag, 0)
         /\ UNCHANGED <<subscriptions, channels>>
    ELSE LET invoked == UnsubscribeAllInvocations(c)
         IN /\ channels' = channels \ Closed(invoked)
            /\ subscriptions' = [subscriptions EXCEPT ![c] = NoRef]
            /\ last' = Sync("unsubscribeAll", c, "", invoked, 0)

\* collection.unsubscribeAll()
UnsubscribeAll(c) ==
    /\ instances[c] >= 1
    /\ UnsubscribeAllOf(c)
    /\ UNCHANGED <<maps, states, calls, opens, loops, instances, timers, nSubs,
                   delivered, batches, uncaught, limits, query>>


\* ------------------------------------------------- asynchronous continuations
\* handleReconnection awaiting setupSubscription outside any try block.
HasCatchOpenOnly(site) == site = "open"

\* Whether a rejection of the transport's subscribe promise meets a handler:
\* the .catch() chained in subscribeToCollection for the initial open, the
\* try/catch around the await in handleReconnection for a reopen.
HasCatch(site) == site \in {"open", "reopen"}

\* A backoff that grows by the base delay per attempt instead of doubling.
ReconnectDelayLinear(reconnectAttempts) == BASE_RECONNECT_DELAY * (reconnectAttempts + 1)

\* const delay = this.BASE_RECONNECT_DELAY * Math.pow(2, state.reconnectAttempts)
ReconnectDelay(reconnectAttempts) == BASE_RECONNECT_DELAY * Pow2(reconnectAttempts)

\* A .then callback that puts a record back under the key when it finds none.
OpenResolvedResurrects(s) ==
    /\ opens[s] = "pending"
    /\ opens' = [opens EXCEPT ![s] = "resolved"]
    /\ channels' = channels \cup {OpenHandle(s)}
    /\ LET state == maps[calls[s].map][calls[s].k] IN
       IF state # NoRef
       THEN /\ states' = [states EXCEPT ![state].unsubscribe = OpenHandle(s)]
            /\ UNCHANGED <<subscriptions, maps>>
       ELSE /\ states' = [states EXCEPT ![s].unsubscribe = OpenHandle(s)]
            /\ maps' = [maps EXCEPT ![calls[s].map][calls[s].k] = s]
            /\ subscriptions' = [subscriptions EXCEPT ![calls[s].c] = calls[s].map]
    /\ last' = Async
    /\ UNCHANGED <<calls, loops, instances, timers, nSubs,
                   delivered, batches, uncaught, limits, query>>

\* .then((unsubscribe) => ...) of subscribeToCollection: the transport opened
\* the channel of call s; the handle goes into whatever state the captured Map
\* holds under the key now.
OpenResolved(s) ==
    /\ opens[s] = "pending"
    /\ opens' = [opens EXCEPT ![s] = "resolved"]
    /\ channels' = channels \cup {OpenHandle(s)}
    /\ LET state == maps[calls[s].map][calls[s].k] IN
       states' = IF state # NoRef
                 THEN [states EXCEPT ![state].unsubscribe = OpenHandle(s)]
                 ELSE states
    /\ last' = Async
    /\ UNCHANGED <<subscriptions, maps, calls, loops, instances, timers, nSubs,
                   delivered, batches, uncaught, limits, query>>

\* handleReconnection up to its first await, called by the failure of call s
\* with the inner Maps as mapsNow: it looks the state up in the registry as it
\* is now, returns when there is none or it is already reconnecting, and
\* otherwise sets the flag and enters the loop (or skips it and gives up).
HandleReconnection(s, mapsNow) ==
    LET c == calls[s].c
        key == calls[s].k
        collectionSubs == subscriptions[c]
        state == IF collectionSubs = NoRef THEN NoRef ELSE mapsNow[collectionSubs][key]
    IN
    IF state = NoRef \/ states[state].isReconnecting
    THEN /\ maps' = mapsNow
         /\ UNCHANGED <<states, loops>>
    ELSE IF states[state].reconnectAttempts < MAX_RECONNECT_ATTEMPTS
    THEN /\ maps' = mapsNow
         /\ states' = [states EXCEPT ![state].isReconnecting = TRUE]
         /\ loops' = [loops EXCEPT ![s] =
                [pc |-> "delay", target |-> state, map |-> collectionSubs,
                 delay |-> ReconnectDelay(states[state].reconnectAttempts),
                 attempts |-> 0]]
    ELSE /\ maps' = [mapsNow EXCEPT ![collectionSubs][key] = NoRef]
         /\ states' = [states EXCEPT ![state].isReconnecting = FALSE]
         /\ loops' = [loops EXCEPT ![s] = LoopDone]

\* .catch((error) => ...) of subscribeToCollection: the initial open of call s
\* failed; the key is deleted from the captured Map, then handleReconnection runs.
OpenRejected(s) ==
    /\ limits.rejects
    /\ opens[s] = "pending"
    /\ opens' = [opens EXCEPT ![s] = "rejected"]
    /\ IF HasCatch("open")
       THEN /\ HandleReconnection(s, [maps EXCEPT ![calls[s].map][calls[s].k] = NoRef])
            /\ UNCHANGED uncaught
       ELSE /\ uncaught' = uncaught \cup {OpenHandle(s)}
            /\ UNCHANGED <<maps, states, loops>>
    /\ last' = Async
    /\ UNCHANGED <<subscriptions, calls, channels, instances, timers, nSubs,
                   delivered, batches, limits, query>>

\* The backoff timer of the loop started by call s fires: the loop calls
\* setupSubscription, which asks the transport for a channel.
ReconnectDelayElapsed(s) ==
    /\ loops[s].pc = "delay"
    /\ loops' = [loops EXCEPT ![s].pc = "open", ![s].attempts = @ + 1]
    /\ last' = Async
    /\ UNCHANGED <<subscriptions, maps, states, calls, opens, channels, instances,
                   timers, nSubs, delivered, batches, uncaught, limits, query>>

\* A successful reopen that stores the handle and clears the flag but keeps
\* the attempt counter.
ReconnectResolvedKeepsCounter(s) ==
    /\ loops[s].pc = "open"
    /\ channels' = channels \cup {ReopenHandle(s)}
    /\ states' = [states EXCEPT ![loops[s].target].unsubscribe = ReopenHandle(s),
                                ![loops[s].target].isReconnecting = FALSE]
    /\ loops' = [loops EXCEPT ![s] = LoopDone]
    /\ last' = Async
    /\ UNCHANGED <<subscriptions, maps, calls, opens, instances, timers, nSubs,
                   delivered, batches, uncaught, limits, query>>

\* The reopen of the loop started by call s succeeded (lines 137-140).
ReconnectResolved(s) ==
    /\ loops[s].pc = "open"
    /\ channels' = channels \cup {ReopenHandle(s)}
    /\ states' = [states EXCEPT ![loops[s].target] =
            [unsubscribe |-> ReopenHandle(s), reconnectAttempts |-> 0,
             isReconnecting |-> FALSE]]
    /\ loops' = [loops EXCEPT ![s] = LoopDone]
    /\ last' = Async
    /\ UNCHANGED <<subscriptions, maps, calls, opens, instances, timers, nSubs,
                   delivered, batches, uncaught, limits, query>>

\* A failed reopen after which the loop, the maximum reached, returns with
\* the flag still set and the record still in the Map.
ReconnectRejectedKeepsFlag(s) ==
    /\ loops[s].pc = "open"
    /\ LET state == loops[s].target
           n == states[state].reconnectAttempts + 1
       IN /\ states' = [states EXCEPT ![state].reconnectAttempts = n]
          /\ loops' = IF n < MAX_RECONNECT_ATTEMPTS
                      THEN [loops EXCEPT ![s].pc = "delay",
                                         ![s].delay = ReconnectDelay(n)]
                      ELSE [loops EXCEPT ![s] = LoopDone]
    /\ last' = Async
    /\ UNCHANGED <<subscriptions, maps, calls, opens, channels, instances, timers,
                   nSubs, delivered, batches, uncaught, limits, query>>

\* The reopen of the loop started by call s failed: count it, then either wait
\* for the next delay or, the maximum reached, give up (lines 141-148).
ReconnectRejected(s) ==
    /\ loops[s].pc = "open"
    /\ IF HasCatch("reopen")
       THEN /\ UNCHANGED uncaught
            /\ LET state == loops[s].target
                   n == states[state].reconnectAttempts + 1
               IN IF n < MAX_RECONNECT_ATTEMPTS
                  THEN /\ states' = [states EXCEPT ![state].reconnectAttempts = n]
                       /\ loops' = [loops EXCEPT ![s].pc = "delay",
                                                 ![s].delay = ReconnectDelay(n)]
                       /\ UNCHANGED maps
                  ELSE /\ states' = [states EXCEPT ![state].reconnectAttempts = n,
                                                   ![state].isReconnecting = FALSE]
                       /\ maps' = [maps EXCEPT ![loops[s].map][calls[s].k] = NoRef]
                       /\ loops' = [loops EXCEPT ![s] = LoopDone]
       ELSE /\ uncaught' = uncaught \cup {ReopenHandle(s)}
            /\ loops' = [loops EXCEPT ![s] = LoopDone]
            /\ UNCHANGED <<maps, states>>
    /\ last' = Async
    /\ UNCHANGED <<subscriptions, calls, opens, channels, instances, timers, nSubs,
                   delivered, batches, limits, query>>

\* The setInterval callback of call s: it cancels itself once the captured Map
\* holds nothing under the key, and otherwise does nothing.
HealthCheck(s) ==
    /\ limits.ticks
    /\ s \in timers
    /\ maps[calls[s].map][calls[s].k] = NoRef
    /\ timers' = timers \ {s}
    /\ last' = Async
    /\ UNCHANGED <<subscriptions, maps, states, calls, opens, loops, channels,
                   instances, nSubs, delivered, batches, uncaught, limits, query>>

\* ------------------------------------------------------------ change events
\* The switch with the update case falling into an insert.
EventWritesUpdateInserts(action, record) ==
    CASE action \in {"create", "update"} ->
            <<[fn |-> "writeInsert", arg |-> <<"record", record>>]>>
      [] action = "delete" -> <<[fn |-> "writeDelete", arg |-> <<"id", record>>]>>
      [] OTHER -> <<>>

\* The switch with a default case that updates.
EventWritesDefaultUpdates(action, record) ==
    CASE action = "create" -> <<[fn |-> "writeInsert", arg |-> <<"record", record>>]>>
      [] action = "delete" -> <<[fn |-> "writeDelete", arg |-> <<"id", record>>]>>
      [] OTHER -> <<[fn |-> "writeUpdate", arg |-> <<"record", record>>]>>

\* The switch of eventHandler: the writes one event makes inside its batch.
EventWrites(action, record) ==
    CASE action = "create" -> <<[fn |-> "writeInsert", arg |-> <<"record", record>>]>>
      [] action = "update" -> <<[fn |-> "writeUpdate", arg |-> <<"record", record>>]>>
      [] action = "delete" -> <<[fn |-> "writeDelete", arg |-> <<"id", record>>]>>
      [] OTHER -> <<>>

\* An eventHandler that puts its batch in front of the earlier ones.
ApplyBatchFirst(log, batch) == <<batch>> \o log

\* collection.utils.writeBatch(...) runs synchronously inside the handler, so
\* the batch of an event is applied when the event is delivered, after the
\* batches of the events delivered before it.
ApplyBatch(log, batch) == Append(log, batch)

\* The remote changes the delivered messages report.  The server sends one
\* message per topic a change matches ("*" and the record's id), and the
\* client hands a message to every listener of its topic.
Changes(log) == {log[i].change : i \in 1 .. Len(log)}

\* The message on channel h may report the remote change `change`: a new
\* one, or one already reported on other channels of the collection with the
\* same action and record.
Reports(h, action, record, change) ==
    \/ change = Cardinality(Changes(delivered)) + 1
    \/ /\ \E i \in 1 .. Len(delivered) :
              /\ delivered[i].change = change
              /\ delivered[i].action = action
              /\ delivered[i].record = record
              /\ calls[delivered[i].chan.id].c = calls[h.id].c
       /\ \A i \in 1 .. Len(delivered) :
              delivered[i].change = change => delivered[i].chan # h

\* The transport delivers an event on the open channel h: its eventHandler
\* runs collection.utils.writeBatch once, on the collection instance the
\* channel's setupSubscription call was given.
Deliver(h, action, record) ==
    /\ h \in channels
    /\ Len(delivered) < limits.events
    /\ action \in limits.actions
    /\ calls[h.id].k \in {"*", record}
    /\ \E change \in 1 .. Len(delivered) + 1 :
          /\ Reports(h, action, record, change)
          /\ delivered' = Append(delivered, [chan |-> h, action |-> action,
                                             record |-> record, change |-> change])
    /\ batches' = ApplyBatch(batches,
            [collection |-> <<calls[h.id].c, calls[h.id].inst>>, chan |-> h,
             writes |-> EventWrites(action, record)])
    /\ last' = Async
    /\ UNCHANGED <<subscriptions, maps, states, calls, opens, loops, channels,
                   instances, timers, nSubs, uncaught, limits, query>>

\* ------------------------------------------------------------ query converter
\* (src/src/query-converter.ts)  A JavaScript string is modelled as the
\* sequence of its characters, so that joining, quoting and escaping are
\* computed character by character.

\* The JavaScript values the converter meets.
Undefined == [kind |-> "undefined"]
Null == [kind |-> "null"]
Bool(b) == [kind |-> "boolean", value |-> b]
Num(n) == [kind |-> "number", value |-> n]
Str(chars) == [kind |-> "string", value |-> chars]
Arr(elements) == [kind |-> "array", value |-> elements]
\* An object literal: its own properties, inherited from Object.prototype.
Obj(properties) == [kind |-> "object", value |-> properties]
\* A Date holding the time value `time` (milliseconds since the epoch), or
\* NaN: new Date(NaN), new Date('no date') are the Invalid Date.
Date(time) == [kind |-> "date", isNaN |-> FALSE, time |-> time]
InvalidDate == [kind |-> "date", isNaN |-> TRUE, time |-> 0]

\* The nodes of a where-expression (IR.BasicExpression of @tanstack/db).
Ref(path) == [type |-> "ref", path |-> path]
Val(value) == [type |-> "val", value |-> value]
Func(name, args) == [type |-> "func", name |-> name, args |-> args]

\* How a call ends.
Return(value) == [pc |-> "return", value |-> value]
Throw(error) == [pc |-> "throw", error |-> error]

\* !x for the values above: undefined, null, false, 0 and '' are falsy.
Falsy(x) ==
    /\ "kind" \in DOMAIN x
    /\ \/ x.kind \in {"undefined", "null"}
       \/ x.kind = "boolean" /\ ~x.value
       \/ x.kind = "number" /\ x.value = 0
       \/ x.kind = "string" /\ x.value = <<>>

RECURSIVE join(_, _)
\* Array.prototype.join on an array of strings.
join(array, separator) ==
    IF array = <<>> THEN <<>>
    ELSE IF Len(array) = 1 THEN array[1]
    ELSE array[1] \o separator \o join(Tail(array), separator)

RECURSIVE trim(_)
\* String.prototype.trim (the only white space the model has is the blank).
trim(s) ==
    IF s = <<>> THEN <<>>
    ELSE IF Head(s) = " " THEN trim(Tail(s))
    ELSE IF s[Len(s)] = " " THEN trim(SubSeq(s, 1, Len(s) - 1))
    ELSE s

DecimalDigits == <<"0", "1", "2", "3", "4", "5", "6", "7", "8", "9">>

RECURSIVE NatToString(_)
NatToString(n) ==
    IF n < 10 THEN <<DecimalDigits[n + 1]>>
    ELSE NatToString(n \div 10) \o <<DecimalDigits[(n % 10) + 1]>>

RECURSIVE StringOf(_)
\* String(value), for the values above (numbers are integers here).
StringOf(value) ==
    CASE value.kind = "undefined" -> <<"u", "n", "d", "e", "f", "i", "n", "e", "d">>
      [] value.kind = "null" -> <<"n", "u", "l", "l">>
      [] value.kind = "boolean" ->
            IF value.value THEN <<"t", "r", "u", "e">> ELSE <<"f", "a", "l", "s", "e">>
      [] value.kind = "number" ->
            IF value.value < 0 THEN <<"-">> \o NatToString(-value.value)
            ELSE NatToString(value.value)
      [] value.kind = "string" -> value.value
      [] value.kind = "array" ->
            join([i \in 1 .. Len(value.value) |->
                    IF value.value[i].kind \in {"undefined", "null"} THEN <<>>
                    ELSE StringOf(value.value[i])],
                 <<",">>)
      [] value.kind = "object" ->
            <<"[", "o", "b", "j", "e", "c", "t", " ", "O", "b", "j", "e", "c", "t", "]">>

RECURSIVE EscapeQuotes(_)
\* value.replace(/"/g, '\\"'): a backslash goes in front of every double quote.
EscapeQuotes(s) ==
    IF s = <<>> THEN <<>>
    ELSE (IF Head(s) = "\"" THEN <<"\\", "\"">> ELSE <<Head(s)>>)
         \o EscapeQuotes(Tail(s))

\* n written with at least `width` digits, zeros in front.
PadStart(n, width) ==
    LET digits == NatToString(n) IN
    [i \in 1 .. width - Len(digits) |-> "0"] \o digits

\* Date.prototype.toISOString: YYYY-MM-DDTHH:mm:ss.sssZ in UTC; a RangeError
\* for the Invalid Date.  The time values of the model lie in the first day
\* of the epoch (below 86400000), so the date part is 1970-01-01.
toISOString(date) ==
    IF date.isNaN
    THEN Throw([name |-> "RangeError", message |-> <<"Invalid time value">>])
    ELSE LET ms == date.time IN
         Return(<<"1", "9", "7", "0", "-", "0", "1", "-", "0", "1", "T">>
                \o PadStart(ms \div 3600000, 2) \o <<":">>
                \o PadStart((ms \div 60000) % 60, 2) \o <<":">>
                \o PadStart((ms \div 1000) % 60, 2) \o <<".">>
                \o PadStart(ms % 1000, 3) \o <<"Z">>)

\* `${prefix}${interpolated}${suffix}`: a throw of the interpolated call ends
\* the evaluation of the template.
Template(prefix, interpolated, suffix) ==
    IF interpolated.pc = "throw" THEN interpolated
    ELSE Return(prefix \o interpolated.value \o suffix)

\* formatValue(value)
formatValue(value) ==
    CASE value.kind = "null" -> Return(<<"n", "u", "l", "l">>)
      [] value.kind = "boolean" /\ value.value -> Return(<<"t", "r", "u", "e">>)
      [] value.kind = "boolean" /\ ~value.value -> Return(<<"f", "a", "l", "s", "e">>)
      [] value.kind = "number" -> Return(StringOf(value))
      [] value.kind = "string" ->
            Return(<<"\"">> \o EscapeQuotes(value.value) \o <<"\"">>)
      [] value.kind = "date" -> Template(<<"\"">>, toISOString(value), <<"\"">>)
      [] OTHER -> Return(<<"\"">> \o StringOf(value) \o <<"\"">>)


\* The handlers convertToPocketBaseFilter gives to parseWhereExpression.
\* Each comparison emits `${fieldPath} <symbol> ${formatValue(value)}`, or
\* throws what formatValue throws.
eq(field, value) ==
    Template(join(field, <<".">>) \o <<" ", "=", " ">>, formatValue(value), <<>>)

gt(field, value) ==
    Template(join(field, <<".">>) \o <<" ", ">", " ">>, formatValue(value), <<>>)

\* A gte handler that emits the symbol of gt.
gteEmitsGt(field, value) == gt(field, value)

gte(field, value) ==
    Template(join(field, <<".">>) \o <<" ", ">", "=", " ">>, formatValue(value), <<>>)

lt(field, value) ==
    Template(join(field, <<".">>) \o <<" ", "<", " ">>, formatValue(value), <<>>)

lte(field, value) ==
    Template(join(field, <<".">>) \o <<" ", "<", "=", " ">>, formatValue(value), <<>>)

\* values.map(callback).join(separator) wrapped in prefix and suffix, for a
\* callback that may throw: the first throw ends the map.
MapJoin(mapped, prefix, separator, suffix) ==
    LET thrown == {i \in 1 .. Len(mapped) : mapped[i].pc = "throw"} IN
    IF thrown # {} THEN mapped[CHOOSE i \in thrown : \A j \in thrown : i <= j]
    ELSE Return(prefix \o join([i \in 1 .. Len(mapped) |-> mapped[i].value], separator)
                \o suffix)

\* An in handler for which membership in nothing is no condition at all.
inEmptyIsNoFilter(field, values) ==
    LET fieldPath == join(field, <<".">>) IN
    IF values.kind = "array"
    THEN LET conditions == [i \in 1 .. Len(values.value) |->
                 Template(fieldPath \o <<" ", "?", "=", " ">>,
                          formatValue(values.value[i]), <<>>)]
         IN IF Len(conditions) = 0 THEN Return(<<>>)
            ELSE IF Len(conditions) = 1 THEN conditions[1]
            ELSE MapJoin(conditions, <<"(">>, <<" ", "|", "|", " ">>, <<")">>)
    ELSE Template(fieldPath \o <<" ", "=", " ">>, formatValue(values), <<>>)

\* in: (field, values) => ...
in(field, values) ==
    LET fieldPath == join(field, <<".">>) IN
    IF values.kind = "array"
    THEN IF Len(values.value) = 0
         THEN Return(<<"i", "d", " ", "=", " ", "\"", "\"">>)
         ELSE LET conditions == [i \in 1 .. Len(values.value) |->
                      Template(fieldPath \o <<" ", "?", "=", " ">>,
                               formatValue(values.value[i]), <<>>)]
              IN IF Len(conditions) = 1 THEN conditions[1]
                 ELSE MapJoin(conditions, <<"(">>, <<" ", "|", "|", " ">>, <<")">>)
    ELSE Template(fieldPath \o <<" ", "=", " ">>, formatValue(values), <<>>)

\* conditions.filter(c => c && c.trim() !== '')
NonEmpty(conditions) ==
    LET Keep(c) == c # <<>> /\ trim(c) # <<>> IN SelectSeq(conditions, Keep)

\* An and handler that parenthesises whatever survives.
andAlwaysParenthesised(conditions) ==
    LET nonEmpty == NonEmpty(conditions) IN
    IF Len(nonEmpty) = 0 THEN <<>>
    ELSE <<"(">> \o join(nonEmpty, <<" ", "&", "&", " ">>) \o <<")">>

\* and: (...conditions) => ...
and(conditions) ==
    LET nonEmpty == NonEmpty(conditions) IN
    IF Len(nonEmpty) = 0 THEN <<>>
    ELSE IF Len(nonEmpty) = 1 THEN nonEmpty[1]
    ELSE <<"(">> \o join(nonEmpty, <<" ", "&", "&", " ">>) \o <<")">>

\* or: (...conditions) => ...
or(conditions) ==
    LET nonEmpty == NonEmpty(conditions) IN
    IF Len(nonEmpty) = 0 THEN <<>>
    ELSE IF Len(nonEmpty) = 1 THEN nonEmpty[1]
    ELSE <<"(">> \o join(nonEmpty, <<" ", "|", "|", " ">>) \o <<")">>

\* The operators that have a handler.
SupportedOperators == {"eq", "gt", "gte", "lt", "lte", "in", "and", "or"}

\* An onUnknownOperator that skips the operator: no condition, no error.
onUnknownOperatorSkips(op) == Return(<<>>)

\* onUnknownOperator: the error it throws; the message is the concatenation
\* of the pieces of its template and of the operator names it lists.
onUnknownOperator(op) ==
    Throw([name |-> "Error",
           message |-> <<"Unsupported query operator for PocketBase: \"", op, "\". ",
                         "Supported operators: ", "eq", ", ", "gt", ", ", "gte", ", ",
                         "lt", ", ", "lte", ", ", "in", ", ", "and", ", ", "or">>])

RECURSIVE parseWhereExpression(_)
\* parseWhereExpression(where, {handlers, onUnknownOperator}) of @tanstack/db
\* as convertToPocketBaseFilter calls it: an operator without a handler goes
\* to onUnknownOperator; and/or get the translations of their operands, in
\* order; every other operator gets the path of its first argument and the
\* value of its second.  A throw inside an operand or a handler ends the
\* whole call.
parseWhereExpression(expr) ==
    IF expr.name \notin SupportedOperators THEN onUnknownOperator(expr.name)
    ELSE IF expr.name \in {"and", "or"}
    THEN LET parsed == [i \in 1 .. Len(expr.args) |-> parseWhereExpression(expr.args[i])]
             thrown == {i \in 1 .. Len(expr.args) : parsed[i].pc = "throw"}
             conditions == [i \in 1 .. Len(expr.args) |-> parsed[i].value]
         IN IF thrown # {}
            THEN parsed[CHOOSE i \in thrown : \A j \in thrown : i <= j]
            ELSE Return(IF expr.name = "and" THEN and(conditions) ELSE or(conditions))
    ELSE LET field == expr.args[1].path
             value == expr.args[2].value
         IN CASE expr.name = "eq" -> eq(field, value)
              [] expr.name = "gt" -> gt(field, value)
              [] expr.name = "gte" -> gte(field, value)
              [] expr.name = "lt" -> lt(field, value)
              [] expr.name = "lte" -> lte(field, value)
              [] expr.name = "in" -> in(field, value)

\* convertToPocketBaseFilter handing every input to parseWhereExpression,
\* which reads where.name.
convertToPocketBaseFilterUnguarded(where) ==
    IF "name" \notin DOMAIN where
    THEN Throw([name |-> "TypeError", message |-> <<"Cannot read properties of ",
                                                   where.kind>>])
    ELSE LET result == parseWhereExpression(where) IN
         IF result.pc = "return" THEN Return(Str(result.value)) ELSE result

\* convertToPocketBaseFilter(where)
convertToPocketBaseFilter(where) ==
    IF Falsy(where) THEN Return(Str(<<>>))
    ELSE LET result == parseWhereExpression(where) IN
         IF result.pc = "return" THEN Return(Str(result.value)) ELSE result

\* parseOrderByExpression(orderBy) of @tanstack/db: one {field, direction}
\* per entry of the order-by array, in order.
parseOrderByExpression(orderBy) ==
    [i \in 1 .. Len(orderBy.value) |->
        [field |-> orderBy.value[i].expression.path,
         direction |-> orderBy.value[i].compareOptions.direction]]

\* A convertToPocketBaseSort that writes every direction: "+" for asc.
convertToPocketBaseSortSigned(orderBy) ==
    IF Falsy(orderBy) THEN Return(Str(<<>>))
    ELSE LET sorts == parseOrderByExpression(orderBy) IN
         Return(Str(join([i \in 1 .. Len(sorts) |->
                            (IF sorts[i].direction = "desc" THEN <<"-">> ELSE <<"+">>)
                            \o join(sorts[i].field, <<".">>)],
                         <<",">>)))

\* convertToPocketBaseSort(orderBy); an array, even an empty one, is truthy.
convertToPocketBaseSort(orderBy) ==
    IF Falsy(orderBy) THEN Return(Str(<<>>))
    ELSE LET sorts == parseOrderByExpression(orderBy) IN
         Return(Str(join([i \in 1 .. Len(sorts) |->
                            (IF sorts[i].direction = "desc" THEN <<"-">> ELSE <<>>)
                            \o join(sorts[i].field, <<".">>)],
                         <<",">>)))


\* The keys queryFn may put into queryOptions.
QueryOptionKeys == {"filter", "sort", "perPage", "expand"}

\* queryFn of create(), called with ctx.meta?.loadSubsetOptions and with the
\* factory's options?.expand: it translates where and orderBy, sets each
\* option whose value is truthy, and returns what getFullList(queryOptions)
\* resolves to.  A throw of the translation rejects the promise it returns.
queryFn(loadSubsetOptions, expand) ==
    LET given == IF Falsy(loadSubsetOptions)
                 THEN [where |-> Undefined, orderBy |-> Undefined, limit |-> Undefined]
                 ELSE loadSubsetOptions
        filter == convertToPocketBaseFilter(given.where)
        sort == convertToPocketBaseSort(given.orderBy)
    IN IF filter.pc = "throw" THEN filter
       ELSE IF sort.pc = "throw" THEN sort
       ELSE LET candidate == [filter |-> filter.value, sort |-> sort.value,
                              perPage |-> given.limit, expand |-> expand]
                set == {k \in QueryOptionKeys : ~Falsy(candidate[k])}
            IN Return([getFullList |-> [k \in set |-> candidate[k]]])


\* ------------------------------------------------------------ React provider
\* (provider.tsx)  The value of CollectionsContext is null outside a
\* CollectionsProvider and the provider's collections object inside.

\* The names every object literal inherits from Object.prototype.
ObjectPrototype == {"constructor", "toString"}

\* key in context
HasProperty(context, key) == key \in DOMAIN context.value \cup ObjectPrototype

\* context[key]: the own property, or the inherited function.
GetProperty(context, key) ==
    IF key \in DOMAIN context.value THEN context.value[key]
    ELSE [kind |-> "function", name |-> key]

\* useStore(...keys), with the value useContext(CollectionsContext) gives it.
useStore(context, keys) ==
    IF Falsy(context)
    THEN Throw([name |-> "Error",
                message |-> <<"useStore must be used within a CollectionsProvider">>])
    ELSE LET missing == {i \in 1 .. Len(keys) : ~HasProperty(context, keys[i])}
             notFound(key) ==
                 Throw([name |-> "Error",
                        message |-> <<"Collection \"", key,
                                      "\" not found in CollectionsProvider">>])
         IN IF Len(keys) = 1
            THEN IF missing # {} THEN notFound(keys[1])
                 ELSE Return(GetProperty(context, keys[1]))
            ELSE IF missing # {}
                 THEN notFound(keys[CHOOSE i \in missing : \A j \in missing : i <= j])
                 ELSE Return(Arr([i \in 1 .. Len(keys) |-> GetProperty(context, keys[i])]))

\* ------------------------------------------------------------ specification
Handles == {OpenHandle(s) : s \in SubIds} \cup {ReopenHandle(s) : s \in SubIds}

Next ==
    \/ \E c \in Collections : Create(c)
    \/ \E c \in Collections, i \in 1 .. MaxInst, r \in RecordArgs : Subscribe(c, i, r)
    \/ \E c \in Collections, r \in RecordArgs : Unsubscribe(c, r)
    \/ \E c \in Collections : UnsubscribeAll(c)
    \/ \E s \in SubIds : OpenResolved(s)
    \/ \E s \in SubIds : OpenRejected(s)
    \/ \E s \in SubIds : ReconnectDelayElapsed(s)
    \/ \E s \in SubIds : ReconnectResolved(s)
    \/ \E s \in SubIds : ReconnectRejected(s)
    \/ \E s \in SubIds : HealthCheck(s)
    \/ \E h \in Handles, a \in EventActions, r \in RecordIds : Deliver(h, a, r)

Spec == Init /\ [][Next]_vars

\* ------------------------------------------------- subscription lifecycle
\* The runs in which the application only subscribes and unsubscribes, on
\* one collection and every key, with one accepted subscribe call fewer than
\* MaxSubs: no event is delivered and no health check ticks.
LifecycleLimits ==
    [collections |-> {"jobs"}, records |-> RecordArgs, subs |-> MaxSubs - 1,
     insts |-> 1, events |-> 0, ticks |-> FALSE, rejects |-> TRUE, actions |-> {}]

LifecycleInit ==
    /\ limits = LifecycleLimits
    /\ subscriptions = [c \in Collections |-> NoRef]
    /\ maps = [m \in SubIds |-> EmptyMap]
    /\ states = [s \in SubIds |-> NoState]
    /\ calls = [s \in SubIds |-> NoCall]
    /\ opens = [s \in SubIds |-> "none"]
    /\ loops = [s \in SubIds |-> NoLoop]
    /\ channels = {}
    /\ instances = [c \in Collections |-> 0]
    /\ timers = {}
    /\ nSubs = 0
    /\ delivered = <<>>
    /\ batches = <<>>
    /\ uncaught = {}
    /\ query = NoQuery
    /\ last = Async

LifecycleNext ==
    \/ \E c \in Collections : Create(c)
    \/ \E c \in Collections, i \in 1 .. MaxInst, r \in RecordArgs : Subscribe(c, i, r)
    \/ \E c \in Collections, r \in RecordArgs : Unsubscribe(c, r)
    \/ \E c \in Collections : UnsubscribeAll(c)
    \/ \E s \in SubIds : OpenResolved(s)
    \/ \E s \in SubIds : OpenRejected(s)
    \/ \E s \in SubIds : ReconnectDelayElapsed(s)
    \/ \E s \in SubIds : ReconnectResolved(s)
    \/ \E s \in SubIds : ReconnectRejected(s)

\* The promise of every open and reopen the transport was asked for settles,
\* and the setTimeout of every backoff delay fires.
PromisesSettle ==
    \A s \in SubIds :
        /\ WF_vars(OpenResolved(s) \/ OpenRejected(s))
        /\ WF_vars(ReconnectDelayElapsed(s))
        /\ WF_vars(ReconnectResolved(s) \/ ReconnectRejected(s))

LifecycleSpec == LifecycleInit /\ [][LifecycleNext]_vars /\ PromisesSettle

\* ------------------------------------------- calls of the query converter
\* Every sequence over S of length at most n.
SeqsUpTo(S, n) == UNION {[1 .. k -> S] : k \in 0 .. n}

Segments == {<<"i", "d">>, <<"a">>}
FieldPaths == SeqsUpTo(Segments, MaxPath) \ {<<>>}

\* Scalar values: null, both booleans, numbers, strings (one of them holds a
\* double quote) and undefined.
Scalars ==
    {Null, Bool(TRUE), Bool(FALSE), Num(0), Num(100), Num(-7),
     Str(<<>>), Str(<<"x">>), Str(<<"a", "\"", "b">>), Undefined}

ComparisonOperators == {"eq", "gt", "gte", "lt", "lte"}

Comparisons ==
    {Func(op, <<Ref(p), Val(v)>>) : op \in ComparisonOperators, p \in FieldPaths,
                                     v \in Scalars}

InValues == {Str(<<"x">>), Str(<<"y">>), Num(1)}

Memberships ==
    {Func("in", <<Ref(p), Val(Arr(vs))>>) : p \in FieldPaths,
                                            vs \in SeqsUpTo(InValues, MaxValues)}
    \cup {Func("in", <<Ref(p), Val(v)>>) : p \in FieldPaths, v \in Scalars}

\* The leaves and/or expressions are built from: a comparison, and a
\* membership in nothing.
Operands ==
    {Func("eq", <<Ref(<<<<"a">>>>), Val(Str(<<"x">>))>>),
     Func("in", <<Ref(<<<<"a">>>>), Val(Arr(<<>>))>>)}

\* The and/or expressions of at most n operands taken from S.
Logical(S, n) == {Func(op, args) : op \in {"and", "or"}, args \in SeqsUpTo(S, n)}

\* and/or over leaves and over and/or of leaves, the inner and/or having one
\* operand fewer at most.
Combinations == Logical(Operands \cup Logical(Operands, MaxOperands - 1), MaxOperands)

\* Expressions with an operator that has no handler, at the top and inside.
Unsupported ==
    LET leaf == Func("eq", <<Ref(<<<<"a">>>>), Val(Str(<<"x">>))>>)
        like == Func("like", <<Ref(<<<<"a">>>>), Val(Str(<<"x">>))>>)
    IN {like, Func("not", <<leaf>>), Func("and", <<leaf, like>>),
        Func("or", <<Func("and", <<Func("not", <<leaf>>)>>), leaf>>)}

\* What a caller may pass for an expression it does not have.
Absent == {Undefined, Null}

WhereInputs == Absent \cup Comparisons \cup Memberships \cup Combinations \cup Unsupported

\* The field paths that are sorted by: a field, and a field of a relation.
SortPaths == {<<<<"a">>>>, <<<<"a">>, <<"i", "d">>>>}

OrderByEntries ==
    {[expression |-> Ref(p), compareOptions |-> [direction |-> d]] :
        p \in SortPaths, d \in {"asc", "desc"}}

OrderByInputs == Absent \cup {Arr(entries) : entries \in SeqsUpTo(OrderByEntries, MaxSorts)}

\* ctx.meta?.loadSubsetOptions and options?.expand as queryFn finds them.
LoadSubsetInputs ==
    {Undefined}
    \cup [where : Absent \cup Operands \cup {Func("and", <<>>),
                                             Func("like", <<Ref(<<<<"a">>>>), Val(Num(0))>>)},
          orderBy : Absent \cup {Arr(<<>>)} \cup {Arr(<<e>>) : e \in OrderByEntries},
          limit : {Undefined, Num(0), Num(100)}]

ExpandInputs == {Undefined, Str(<<>>), Str(<<"a">>)}

\* The values formatValue is given: the scalars, strings that hold
\* backslashes (alone, in front of a double quote, and two of them in front
\* of one), Dates (the epoch, 12:34:56.789 of its first day, the Invalid
\* Date), arrays and an object literal.
FormatInputs ==
    Scalars \cup {Str(<<"\\">>), Str(<<"\\", "\"">>), Str(<<"a", "\\", "\\", "\"", "b">>),
                  Date(0), Date(45296789), InvalidDate, Arr(<<>>),
                  Arr(<<Num(1), Str(<<"x">>)>>), Obj(<<>>)}

\* The collections a provider is given, and the keys a component asks for.
CollectionOf(name) == Obj([property \in {"collectionName"} |-> name])
ContextInputs ==
    {Null} \cup {Obj([name \in provided |-> CollectionOf(name)]) :
                    provided \in {{"books"}, {"books", "authors"}}}
StoreKeys == {"books", "authors", "nonexistent", "toString"}
KeysInputs == SeqsUpTo(StoreKeys, MaxKeys)

Pending == [pc |-> "pending"]

QueryCalls ==
    {[fn |-> "convertToPocketBaseFilter", arg |-> <<w>>, result |-> Pending] :
        w \in WhereInputs}
    \cup {[fn |-> "convertToPocketBaseSort", arg |-> <<o>>, result |-> Pending] :
        o \in OrderByInputs}
    \cup {[fn |-> "queryFn", arg |-> <<l, e>>, result |-> Pending] :
        l \in LoadSubsetInputs, e \in ExpandInputs}
    \cup {[fn |-> "formatValue", arg |-> <<v>>, result |-> Pending] : v \in FormatInputs}
    \cup {[fn |-> "useStore", arg |-> <<c, k>>, result |-> Pending] :
        c \in ContextInputs, k \in KeysInputs}

\* The factory does nothing while the converter is called.
Idle == [collections |-> {}, records |-> {}, subs |-> 0, insts |-> 0, events |-> 0,
         ticks |-> FALSE, rejects |-> FALSE, actions |-> {}]

factoryVars == <<subscriptions, maps, states, calls, opens, loops, channels,
                 instances, timers, nSubs, delivered, batches, uncaught, limits, last>>

QueryInit ==
    /\ query \in QueryCalls
    /\ limits = Idle
    /\ subscriptions = [c \in Collections |-> NoRef]
    /\ maps = [m \in SubIds |-> EmptyMap]
    /\ states = [s \in SubIds |-> NoState]
    /\ calls = [s \in SubIds |-> NoCall]
    /\ opens = [s \in SubIds |-> "none"]
    /\ loops = [s \in SubIds |-> NoLoop]
    /\ channels = {}
    /\ instances = [c \in Collections |-> 0]
    /\ timers = {}
    /\ nSubs = 0
    /\ delivered = <<>>
    /\ batches = <<>>
    /\ uncaught = {}
    /\ last = Async

\* A call of convertToPocketBaseFilter runs to its end.
ConvertFilter ==
    /\ query.fn = "convertToPocketBaseFilter"
    /\ query.result = Pending
    /\ query' = [query EXCEPT !.result = convertToPocketBaseFilter(query.arg[1])]
    /\ UNCHANGED factoryVars

\* A call of convertToPocketBaseSort runs to its end.
ConvertSort ==
    /\ query.fn = "convertToPocketBaseSort"
    /\ query.result = Pending
    /\ query' = [query EXCEPT !.result = convertToPocketBaseSort(query.arg[1])]
    /\ UNCHANGED factoryVars

\* The loader runs one query.
RunQueryFn ==
    /\ query.fn = "queryFn"
    /\ query.result = Pending
    /\ query' = [query EXCEPT !.result = queryFn(query.arg[1], query.arg[2])]
    /\ UNCHANGED factoryVars

\* A handler formats one value.
FormatValue ==
    /\ query.fn = "formatValue"
    /\ query.result = Pending
    /\ query' = [query EXCEPT !.result = formatValue(query.arg[1])]
    /\ UNCHANGED factoryVars

\* A component rendered with the context value arg[1] calls useStore.
UseStore ==
    /\ query.fn = "useStore"
    /\ query.result = Pending
    /\ query' = [query EXCEPT !.result = useStore(query.arg[1], query.arg[2])]
    /\ UNCHANGED factoryVars

QueryNext == ConvertFilter \/ ConvertSort \/ RunQueryFn \/ FormatValue \/ UseStore

QuerySpec == QueryInit /\ [][QueryNext]_vars



\* ------------------------------------------------------------------ claims
\* The registry lookup this.subscriptions.get(c)?.get(key): the state the
\* registry holds for (c, key), NoRef when it holds none.
RecordOf(c, key) ==
    IF subscriptions[c] = NoRef THEN NoRef ELSE maps[subscriptions[c]][key]

\* The recordId argument that names a key.
KeyArg(key) == IF key = "*" THEN NoRecordId ELSE key

\* C1: once a subscribe call put the record of call s under its key,
\* isSubscribed(key) stays true across every step that leaves the open of s
\* pending and is neither unsubscribe(key) nor unsubscribeAll() of that
\* collection.
C1_SubscribedWhilePending ==
    [][\A s \in SubIds :
        LET c == calls[s].c
            key == calls[s].k
        IN (/\ opens[s] = "pending"
            /\ RecordOf(c, key) = s
            /\ opens'[s] = "pending"
            /\ ~(last'.op = "unsubscribe" /\ last'.c = c /\ last'.k = key)
            /\ ~(last'.op = "unsubscribeAll" /\ last'.c = c))
           => IsSubscribed(c, KeyArg(key))']_vars

\* C2: a subscribe(key) call made while the registry holds a record for
\* (collection, key) requests no channel and changes nothing: not the record,
\* not any other record, no promise, loop, channel or timer; and a subscribe
\* that directly follows a subscribe of the same key requests no channel.
C2_SubscribeExistingIsNoop ==
    [][\A c \in Collections, key \in Keys :
        (last'.op = "subscribe" /\ last'.c = c /\ last'.k = key)
        => /\ RecordOf(c, key) # NoRef
              => /\ last'.opened = 0
                 /\ UNCHANGED <<subscriptions, maps, states, calls, opens, loops,
                                channels, instances, timers, nSubs, uncaught>>
           /\ (last.op = "subscribe" /\ last.c = c /\ last.k = key)
              => last'.opened = 0]_vars

\* C2 witness: subscribe on a key whose record is reconnecting was a no-op.
C2_Witness ==
    /\ last.op = "subscribe"
    /\ last.opened = 0
    /\ RecordOf(last.c, last.k) # NoRef
    /\ states[RecordOf(last.c, last.k)].isReconnecting

\* C3: when create(c) returns, isSubscribed() is true for c, and if the
\* registry held no "*" record before, the call requested exactly one channel
\* open, for key "*" of c.
C3_CreateSubscribes ==
    [][\A c \in Collections :
        (last'.op = "create" /\ last'.c = c)
        => /\ IsSubscribed(c, NoRecordId)'
           /\ RecordOf(c, "*") = NoRef
              => /\ last'.opened = 1
                 /\ nSubs' = nSubs + 1
                 /\ calls'[nSubs'].c = c
                 /\ calls'[nSubs'].k = "*"
                 /\ opens'[nSubs'] = "pending"
                 /\ \A s \in SubIds \ {nSubs'} : opens'[s] = opens[s]]_vars

\* C3 witness: create() returned having requested the "*" channel.
C3_Witness ==
    /\ last.op = "create"
    /\ last.opened = 1
    /\ IsSubscribed(last.c, NoRecordId)
    /\ opens[RecordOf(last.c, "*")] = "pending"

\* C4: when the initial open of a call fails while its record is still the
\* one registered under the key, the reconnect procedure starts: the loop
\* for that key is waiting for its first backoff delay.
C4_OpenFailureStartsReconnect ==
    [][\A s \in SubIds :
        (/\ opens[s] = "pending"
         /\ opens'[s] = "rejected"
         /\ RecordOf(calls[s].c, calls[s].k) = s)
        => /\ loops'[s].pc = "delay"
           /\ loops'[s].delay = BASE_RECONNECT_DELAY
           /\ IsSubscribed(calls[s].c, KeyArg(calls[s].k))']_vars

\* C5: the step in which a reconnect loop's fifth reopen fails clears
\* isReconnecting, leaves isSubscribed(key) false, raises nothing and ends
\* the loop.
C5_ExhaustionGivesUp ==
    [][\A s \in SubIds :
        (/\ loops[s].pc = "open"
         /\ loops'[s].pc = "done"
         /\ states'[loops[s].target].reconnectAttempts = MAX_RECONNECT_ATTEMPTS)
        => /\ ~states'[loops[s].target].isReconnecting
           /\ ~IsSubscribed(calls[s].c, KeyArg(calls[s].k))'
           /\ uncaught' = {}]_vars

\* C6: no failure of a channel open, initial or reopen, reaches a caller.
C6_OpenFailureNeverThrown == uncaught = {}

\* C6 witness: an initial open and a reopen have both failed.
C6_Witness ==
    \E s \in SubIds :
        /\ opens[s] = "rejected"
        /\ loops[s].pc = "delay"
        /\ states[loops[s].target].reconnectAttempts >= 1


\* The write the claims expect of a change event.
ExpectedWrite(e) ==
    CASE e.action = "create" -> [fn |-> "writeInsert", arg |-> <<"record", e.record>>]
      [] e.action = "update" -> [fn |-> "writeUpdate", arg |-> <<"record", e.record>>]
      [] e.action = "delete" -> [fn |-> "writeDelete", arg |-> <<"id", e.record>>]

IsChange(e) == e.action \in {"create", "update", "delete"}

\* C7: the delivery of a create, update or delete event adds exactly one
\* batch to the local collection of the channel, holding exactly one write:
\* writeInsert(record), writeUpdate(record) or writeDelete(record.id); the
\* batch is added whole, in the step that delivers the event.
C7_OneBatchOneWritePerEvent ==
    [][Len(delivered') = Len(delivered) + 1
       => LET e == delivered'[Len(delivered')]
              b == batches'[Len(batches')]
          IN IsChange(e)
             => /\ Len(batches') = Len(batches) + 1
                /\ SubSeq(batches', 1, Len(batches)) = batches
                /\ b.writes = <<ExpectedWrite(e)>>
                /\ b.chan = e.chan
                /\ b.collection = <<calls[e.chan.id].c, calls[e.chan.id].inst>>]_vars

\* C7 witness: an update and a delete have each been applied in one batch.
C7_Witness ==
    /\ Len(delivered) = 2
    /\ delivered[1].action = "update"
    /\ delivered[2].action = "delete"
    /\ Len(batches) = 2
    /\ batches[2].writes[1].fn = "writeDelete"

RECURSIVE WritesOf(_)
\* The writes of a sequence of batches, in order.
WritesOf(log) ==
    IF log = <<>> THEN <<>> ELSE Head(log).writes \o WritesOf(Tail(log))

RECURSIVE ExpectedWrites(_)
\* The writes the claims expect of a sequence of events, in order.
ExpectedWrites(events) ==
    IF events = <<>> THEN <<>>
    ELSE (IF IsChange(Head(events)) THEN <<ExpectedWrite(Head(events))>> ELSE <<>>)
         \o ExpectedWrites(Tail(events))

\* C8: for every subscription key, the writes made for the events of that key
\* are, in order, the writes of the create, update and delete events the
\* transport delivered for it: none reordered, merged, dropped or repeated.
C8_WritesInDeliveryOrder ==
    \A c \in Collections, key \in Keys :
        LET OfKey(x) == calls[x.chan.id].c = c /\ calls[x.chan.id].k = key
        IN WritesOf(SelectSeq(batches, OfKey))
              = ExpectedWrites(SelectSeq(delivered, OfKey))

\* C8 witness: two different change events were delivered on one channel.
C8_Witness ==
    /\ Len(delivered) = 2
    /\ delivered[1].chan = delivered[2].chan
    /\ delivered[1].action = "create"
    /\ delivered[2].action = "delete"
    /\ Len(WritesOf(batches)) = 2

\* Every unsubscribe function a state can hold.
AllHandles == Handles \cup {Placeholder(s) : s \in SubIds}

\* C9: unsubscribe(key) on a key that has a record calls the handle that
\* record holds exactly once, calls nothing else, and isSubscribed(key) is
\* false when it returns.
C9_UnsubscribeCallsHandleOnce ==
    [][\A c \in Collections, key \in Keys :
        (/\ last'.op = "unsubscribe" /\ last'.c = c /\ last'.k = key
         /\ RecordOf(c, key) # NoRef)
        => /\ \A h \in AllHandles :
                CopiesIn(h, last'.invoked)
                  = (IF h = states[RecordOf(c, key)].unsubscribe THEN 1 ELSE 0)
           /\ ~IsSubscribed(c, KeyArg(key))'
           /\ RecordOf(c, key)' = NoRef
           /\ states[RecordOf(c, key)].unsubscribe \notin channels']_vars

\* C9 witness: unsubscribe called the handle of an open channel.
C9_Witness ==
    /\ last.op = "unsubscribe"
    /\ \E s \in SubIds : CopiesIn(OpenHandle(s), last.invoked) = 1
    /\ ~IsSubscribed(last.c, KeyArg(last.k))

\* C10: unsubscribeAll() of a collection calls the handle of every record the
\* collection has exactly once, isSubscribed is false afterwards for the
\* whole-collection key and every record id, and the records of every other
\* collection are as before.
C10_UnsubscribeAllCallsEveryHandle ==
    [][\A c \in Collections :
        (last'.op = "unsubscribeAll" /\ last'.c = c)
        => /\ \A h \in AllHandles :
                CopiesIn(h, last'.invoked)
                  = Cardinality({key \in Keys :
                        /\ RecordOf(c, key) # NoRef
                        /\ states[RecordOf(c, key)].unsubscribe = h})
           /\ \A r \in RecordArgs : ~IsSubscribed(c, r)'
           /\ \A d \in Collections \ {c}, key \in Keys :
                /\ RecordOf(d, key)' = RecordOf(d, key)
                /\ RecordOf(d, key) # NoRef
                   => states'[RecordOf(d, key)] = states[RecordOf(d, key)]]_vars

\* C10 witness: unsubscribeAll() called the handles of two records, one of
\* them the handle of an open channel.
C10_Witness ==
    /\ last.op = "unsubscribeAll"
    /\ BagCardinality(last.invoked) = 2
    /\ \E s \in SubIds : BagIn(OpenHandle(s), last.invoked)
    /\ \A r \in RecordArgs : ~IsSubscribed(last.c, r)

\* The (collection, key) pair whose channel the handle h belongs to.
KeyOfHandle(h) == <<calls[h.id].c, calls[h.id].k>>

\* C11: unsubscribe(k) on collection c calls no handle of any other
\* (collection, key) pair, leaves the record and the open channels of every
\* other pair as they were, and when (c, k) has no record it calls no handle,
\* closes no channel and leaves isSubscribed as it was for every key of
\* every collection.
C11_UnsubscribeTouchesOnlyItsKey ==
    [][\A c \in Collections, key \in Keys :
        (last'.op = "unsubscribe" /\ last'.c = c /\ last'.k = key)
        => /\ \A h \in BagToSet(last'.invoked) : KeyOfHandle(h) = <<c, key>>
           /\ \A d \in Collections, k2 \in Keys :
                <<d, k2>> # <<c, key>>
                => /\ RecordOf(d, k2)' = RecordOf(d, k2)
                   /\ IsSubscribed(d, KeyArg(k2))' = IsSubscribed(d, KeyArg(k2))
           /\ \A h \in channels \ channels' : KeyOfHandle(h) = <<c, key>>
           /\ states' = states
           /\ RecordOf(c, key) = NoRef
              => /\ last'.invoked = EmptyBag
                 /\ channels' = channels
                 /\ \A d \in Collections, r \in RecordArgs :
                        IsSubscribed(d, r)' = IsSubscribed(d, r)]_vars

\* C11 witness: unsubscribe of a record key called that key's channel handle
\* while the whole-collection key of the same collection kept its record and
\* its open channel.
C11_Witness ==
    /\ last.op = "unsubscribe"
    /\ last.k # "*"
    /\ \E s \in SubIds : BagIn(OpenHandle(s), last.invoked)
    /\ RecordOf(last.c, "*") # NoRef
    /\ states[RecordOf(last.c, "*")].unsubscribe \in channels

\* C12: a subscribe(key) call made while the registry holds no record for
\* (collection, key), as it does right after unsubscribe(key) or
\* unsubscribeAll(), is accepted: it puts a new SubscriptionState under the
\* key with reconnectAttempts 0, isReconnecting false and the placeholder
\* handle, requests one new channel open, and isSubscribed(key) is true when
\* it returns; and unsubscribe(key) and unsubscribeAll() leave no record.
C12_ResubscribeIsAccepted ==
    [][\A c \in Collections, key \in Keys :
        /\ (last'.op = "subscribe" /\ last'.c = c /\ last'.k = key
            /\ RecordOf(c, key) = NoRef)
           => /\ last'.opened = 1
              /\ nSubs' = nSubs + 1
              /\ RecordOf(c, key)' = nSubs'
              /\ \A d \in Collections, k2 \in Keys : RecordOf(d, k2) # nSubs'
              /\ states'[nSubs'] = [unsubscribe |-> Placeholder(nSubs'),
                                    reconnectAttempts |-> 0,
                                    isReconnecting |-> FALSE]
              /\ opens[nSubs'] = "none"
              /\ opens'[nSubs'] = "pending"
              /\ IsSubscribed(c, KeyArg(key))'
        /\ (last'.c = c /\ (\/ last'.op = "unsubscribe" /\ last'.k = key
                            \/ last'.op = "unsubscribeAll"))
           => RecordOf(c, key)' = NoRef]_vars

\* C12 witness: a subscribe was accepted for a key that an earlier call had
\* subscribed and an unsubscribe removed (the earlier open is still pending
\* and no failure has happened, so only an unsubscribe can have removed it).
C12_Witness ==
    /\ last.op = "subscribe"
    /\ last.opened = 1
    /\ RecordOf(last.c, last.k) = nSubs
    /\ \E s \in 1 .. nSubs - 1 :
         /\ calls[s].c = last.c
         /\ calls[s].k = last.k
         /\ opens[s] = "pending"
    /\ \A s \in SubIds : opens[s] # "rejected" /\ loops[s] = NoLoop

\* C13: no step other than a subscribe call for the key (create() being one
\* for the whole-collection key) turns isSubscribed(key) from false to true:
\* the settling of an open or of a reopen that was in flight when the key
\* was removed does not put a record back.
C13_SettlingNeverResurrects ==
    [][\A c \in Collections, key \in Keys :
        (~IsSubscribed(c, KeyArg(key)) /\ IsSubscribed(c, KeyArg(key))')
        => /\ last'.op \in {"subscribe", "create"}
           /\ last'.c = c
           /\ last'.k = key
           /\ last'.opened = 1]_vars

\* C13 witness: the open of a call succeeded after its key was unsubscribed
\* (its channel is open and no record holds its handle), and the key has no
\* record.
C13_Witness ==
    \E s \in SubIds :
        /\ opens[s] = "resolved"
        /\ OpenHandle(s) \in channels
        /\ \A x \in SubIds : states[x].unsubscribe # OpenHandle(s)
        /\ ~IsSubscribed(calls[s].c, KeyArg(calls[s].k))

\* ------------------------------------------- claims on the query converter
\* A call of fn that has ended.
Ended(fn) == query.fn = fn /\ query.result # Pending

\* The where-expression is a func node with one of the operators ops.
IsFunc(where, ops) == "type" \in DOMAIN where /\ where.type = "func" /\ where.name \in ops

\* The symbol the claims give each comparison operator.
SymbolOf(op) ==
    CASE op = "eq" -> <<"=">>
      [] op = "gt" -> <<">">>
      [] op = "gte" -> <<">", "=">>
      [] op = "lt" -> <<"<">>
      [] op = "lte" -> <<"<", "=">>

\* C14: for a where-expression with operator eq, gt, gte, lt or lte, a
\* non-empty field path and a scalar value, convertToPocketBaseFilter returns
\* the path's segments joined by ".", a blank, the operator's symbol
\* (= > >= < <=), a blank and formatValue(value), and nothing else.
C14_ComparisonTemplate ==
    (Ended("convertToPocketBaseFilter") /\ IsFunc(query.arg[1], ComparisonOperators))
    => LET where == query.arg[1] IN
       query.result = Return(Str(join(where.args[1].path, <<".">>) \o <<" ">>
                                 \o SymbolOf(where.name) \o <<" ">>
                                 \o formatValue(where.args[2].value).value))

\* C14 witness: gte on the two-segment path a.id with the number -7 gave
\* the string a.id >= -7.
C14_Witness ==
    /\ Ended("convertToPocketBaseFilter")
    /\ query.arg[1] = Func("gte", <<Ref(<<<<"a">>, <<"i", "d">>>>), Val(Num(-7))>>)
    /\ query.result
         = Return(Str(<<"a", ".", "i", "d", " ", ">", "=", " ", "-", "7">>))

\* The translation of every operand of an and/or expression.
OperandResults(where) ==
    [i \in 1 .. Len(where.args) |-> convertToPocketBaseFilter(where.args[i])]

\* C15: for an and/or expression whose operands all translate, the result is
\* built from the operands' translations that are not the empty string, in
\* input order: the empty string when there is none, that translation itself
\* when there is one, and otherwise "(" + the translations joined by " && "
\* (and) or " || " (or) + ")".
C15_LogicalDropsEmptyOperands ==
    (/\ Ended("convertToPocketBaseFilter")
     /\ IsFunc(query.arg[1], {"and", "or"})
     /\ \A i \in 1 .. Len(query.arg[1].args) :
            OperandResults(query.arg[1])[i].pc = "return")
    => LET where == query.arg[1]
           translations == [i \in 1 .. Len(where.args) |->
                               OperandResults(where)[i].value.value]
           Survives(c) == c # <<>>
           survivors == SelectSeq(translations, Survives)
           separator == IF where.name = "and" THEN <<" ", "&", "&", " ">>
                        ELSE <<" ", "|", "|", " ">>
       IN query.result
            = Return(Str(IF Len(survivors) = 0 THEN <<>>
                         ELSE IF Len(survivors) = 1 THEN survivors[1]
                         ELSE <<"(">> \o join(survivors, separator) \o <<")">>))

\* C15 witness: and(or(), eq(a, "x")) lost its empty first operand and gave
\* the one survivor a = "x" without parentheses.
C15_Witness ==
    /\ Ended("convertToPocketBaseFilter")
    /\ query.arg[1] = Func("and", <<Func("or", <<>>),
                                    Func("eq", <<Ref(<<<<"a">>>>), Val(Str(<<"x">>))>>)>>)
    /\ query.result = Return(Str(<<"a", " ", "=", " ", "\"", "x", "\"">>))

RECURSIVE Dedup(_)
\* The distinct values of a sequence, in the order of their first occurrence.
Dedup(values) ==
    IF values = <<>> THEN <<>>
    ELSE LET rest == Dedup(SubSeq(values, 1, Len(values) - 1))
             v == values[Len(values)]
         IN IF \E i \in 1 .. Len(rest) : rest[i] = v THEN rest ELSE Append(rest, v)

\* The where-expression is an in over an array of values.
IsInArray(where) ==
    /\ IsFunc(where, {"in"})
    /\ where.args[2].value.kind = "array"

\* C16: for an in over an array, convertToPocketBaseFilter returns what it
\* returns for the same field and the array of the distinct values.
C16_InDeduplicates ==
    (Ended("convertToPocketBaseFilter") /\ IsInArray(query.arg[1]))
    => LET where == query.arg[1] IN
       query.result
         = convertToPocketBaseFilter(
              Func("in", <<where.args[1], Val(Arr(Dedup(where.args[2].value.value)))>>))

\* C17: for an in over an array that holds exactly one distinct value v,
\* convertToPocketBaseFilter returns the string it returns for eq(field, v):
\* "<field> = <formatValue(v)>".
C17_InSingleValueIsEquality ==
    (/\ Ended("convertToPocketBaseFilter")
     /\ IsInArray(query.arg[1])
     /\ Len(Dedup(query.arg[1].args[2].value.value)) = 1)
    => LET where == query.arg[1]
           v == where.args[2].value.value[1]
       IN /\ query.result = convertToPocketBaseFilter(Func("eq", <<where.args[1], Val(v)>>))
          /\ query.result = Return(Str(join(where.args[1].path, <<".">>)
                                       \o <<" ", "=", " ">> \o formatValue(v).value))

\* The condition that matches no record: id = ""
IdIsEmptyString == Func("eq", <<Ref(<<<<"i", "d">>>>), Val(Str(<<>>))>>)

RECURSIVE HasEmptyIn(_)
\* The expression is, or holds at some depth, an in over the empty array.
HasEmptyIn(where) ==
    IF IsFunc(where, {"and", "or"})
    THEN \E i \in 1 .. Len(where.args) : HasEmptyIn(where.args[i])
    ELSE IsInArray(where) /\ where.args[2].value.value = <<>>

RECURSIVE EmptyInReplaced(_)
\* The expression with id = "" in the place of every in over the empty array.
EmptyInReplaced(where) ==
    IF IsFunc(where, {"and", "or"})
    THEN Func(where.name, [i \in 1 .. Len(where.args) |-> EmptyInReplaced(where.args[i])])
    ELSE IF HasEmptyIn(where) THEN IdIsEmptyString ELSE where

RECURSIVE Supported(_)
\* Every operator of the expression has a handler.
Supported(where) ==
    /\ IsFunc(where, SupportedOperators)
    /\ IsFunc(where, {"and", "or"})
       => \A i \in 1 .. Len(where.args) : Supported(where.args[i])

\* C18: an in over the empty array translates, whatever its field path, to
\* the condition id = "", not to the empty string and not to an error; and
\* an and/or expression that holds such an in at any depth translates to
\* what it translates to with the condition id = "" in its place, which is
\* a non-empty filter.
C18_InEmptyMatchesNothing ==
    (/\ Ended("convertToPocketBaseFilter")
     /\ Supported(query.arg[1])
     /\ HasEmptyIn(query.arg[1]))
    => /\ query.result.pc = "return"
       /\ query.result.value.value # <<>>
       /\ query.result = convertToPocketBaseFilter(EmptyInReplaced(query.arg[1]))
       /\ IsFunc(query.arg[1], {"in"})
          => query.result = Return(Str(<<"i", "d", " ", "=", " ", "\"", "\"">>))

\* C18 witness: or(and(in(a, [])), eq(a, "x")) gave (id = "" || a = "x").
C18_Witness ==
    /\ Ended("convertToPocketBaseFilter")
    /\ query.arg[1]
         = Func("or", <<Func("and", <<Func("in", <<Ref(<<<<"a">>>>), Val(Arr(<<>>))>>)>>),
                        Func("eq", <<Ref(<<<<"a">>>>), Val(Str(<<"x">>))>>)>>)
    /\ query.result
         = Return(Str(<<"(", "i", "d", " ", "=", " ", "\"", "\"", " ", "|", "|", " ",
                        "a", " ", "=", " ", "\"", "x", "\"", ")">>))

\* C19: for an in over an array that holds two or more distinct values,
\* convertToPocketBaseFilter returns "(" + one condition
\* "<field> ?= <formatValue(v)>" per distinct value v, joined by " || " + ")".
C19_InManyValuesIsAnyEqualsChain ==
    (/\ Ended("convertToPocketBaseFilter")
     /\ IsInArray(query.arg[1])
     /\ Len(Dedup(query.arg[1].args[2].value.value)) >= 2)
    => LET where == query.arg[1]
           distinct == Dedup(where.args[2].value.value)
           conditions == [i \in 1 .. Len(distinct) |->
                             join(where.args[1].path, <<".">>) \o <<" ", "?", "=", " ">>
                             \o formatValue(distinct[i]).value]
       IN query.result
            = Return(Str(<<"(">> \o join(conditions, <<" ", "|", "|", " ">>) \o <<")">>))

\* C20: convertToPocketBaseFilter and convertToPocketBaseSort called with
\* undefined or null return, without throwing, an empty (falsy) result; and
\* the loader given no where leaves filter out of the query options, given no
\* orderBy leaves sort out, and given no subset descriptor leaves out both.
C20_AbsentExpressionGivesNoParameter ==
    /\ (/\ query.fn \in {"convertToPocketBaseFilter", "convertToPocketBaseSort"}
        /\ query.result # Pending
        /\ query.arg[1] \in Absent)
       => /\ query.result.pc = "return"
          /\ Falsy(query.result.value)
    /\ (Ended("queryFn") /\ query.arg[1] = Undefined)
       => /\ query.result.pc = "return"
          /\ DOMAIN query.result.value.getFullList \cap {"filter", "sort"} = {}
    /\ (Ended("queryFn") /\ query.arg[1] # Undefined)
       => /\ query.arg[1].where \in Absent
             => /\ query.result.pc = "return"
                /\ "filter" \notin DOMAIN query.result.value.getFullList
          /\ (query.arg[1].orderBy \in Absent /\ query.result.pc = "return")
             => "sort" \notin DOMAIN query.result.value.getFullList

\* C20 witness: the loader, given where null, no orderBy and the limit 100,
\* queried with perPage alone.
C20_Witness ==
    /\ Ended("queryFn")
    /\ query.arg = <<[where |-> Null, orderBy |-> Undefined, limit |-> Num(100)],
                     Undefined>>
    /\ query.result = Return([getFullList |-> [k \in {"perPage"} |-> Num(100)]])

\* C21: convertToPocketBaseFilter(null), convertToPocketBaseFilter(undefined),
\* convertToPocketBaseSort(null) and convertToPocketBaseSort(undefined) each
\* return the value undefined.
C21_AbsentGivesUndefined ==
    (/\ query.fn \in {"convertToPocketBaseFilter", "convertToPocketBaseSort"}
     /\ query.result # Pending
     /\ query.arg[1] \in Absent)
    => query.result = Return(Undefined)

RECURSIVE OperatorsIn(_)
\* The operators of a where-expression, at every depth.
OperatorsIn(where) ==
    IF "type" \in DOMAIN where /\ where.type = "func"
    THEN {where.name} \cup UNION {OperatorsIn(where.args[i]) : i \in 1 .. Len(where.args)}
    ELSE {}

\* The operators of a where-expression that are outside the supported set.
Offending(where) == OperatorsIn(where) \ {"eq", "gt", "gte", "lt", "lte", "in", "and", "or"}

\* The pieces of a message, as a set.
Pieces(message) == {message[i] : i \in 1 .. Len(message)}

\* The call ended by throwing an error whose message names an offending
\* operator of the expression and lists the eight supported operators.
IsUnsupportedOperatorError(result, where) ==
    /\ result.pc = "throw"
    /\ Pieces(result.error.message) \cap Offending(where) # {}
    /\ {"eq", "gt", "gte", "lt", "lte", "in", "and", "or"} \subseteq Pieces(result.error.message)

\* C22: when a where-expression holds, at any depth, an operator outside
\* {eq, gt, gte, lt, lte, in, and, or}, convertToPocketBaseFilter throws an
\* error whose message names an offending operator and lists the supported
\* ones, and the loader's query is rejected with that error: no filter, whole
\* or partial, is returned and no remote query is made.
C22_UnsupportedOperatorThrows ==
    /\ (Ended("convertToPocketBaseFilter") /\ Offending(query.arg[1]) # {})
       => IsUnsupportedOperatorError(query.result, query.arg[1])
    /\ (/\ Ended("queryFn")
        /\ query.arg[1] # Undefined
        /\ Offending(query.arg[1].where) # {})
       => IsUnsupportedOperatorError(query.result, query.arg[1].where)

\* C22 witness: or(and(not(eq(a, "x"))), eq(a, "x")), whose unsupported not
\* lies two levels down, threw the error that names not.
C22_Witness ==
    /\ Ended("convertToPocketBaseFilter")
    /\ query.arg[1]
         = Func("or", <<Func("and", <<Func("not",
                  <<Func("eq", <<Ref(<<<<"a">>>>), Val(Str(<<"x">>))>>)>>)>>),
                        Func("eq", <<Ref(<<<<"a">>>>), Val(Str(<<"x">>))>>)>>)
    /\ query.result.pc = "throw"
    /\ query.result.error.message[2] = "not"

RECURSIVE SortString(_)
\* The sort string the claims give an order-by list: per entry the path
\* joined by ".", "-" in front when the direction is desc; "," between
\* entries.
SortString(entries) ==
    IF entries = <<>> THEN <<>>
    ELSE (IF Head(entries).compareOptions.direction = "desc" THEN <<"-">> ELSE <<>>)
         \o join(Head(entries).expression.path, <<".">>)
         \o (IF Len(entries) = 1 THEN <<>> ELSE <<",">> \o SortString(Tail(entries)))

\* C23: for every order-by list, convertToPocketBaseSort returns the entries
\* in input order joined by ",", each entry being its field path joined by
\* "." with "-" in front when its direction is desc and nothing in front
\* when it is asc.
C23_SortString ==
    (Ended("convertToPocketBaseSort") /\ query.arg[1] \notin Absent)
    => query.result = Return(Str(SortString(query.arg[1].value)))

\* C23 witness: [{a.id, desc}, {a, asc}] gave -a.id,a.
C23_Witness ==
    /\ Ended("convertToPocketBaseSort")
    /\ query.arg[1]
         = Arr(<<[expression |-> Ref(<<<<"a">>, <<"i", "d">>>>),
                  compareOptions |-> [direction |-> "desc"]],
                 [expression |-> Ref(<<<<"a">>>>),
                  compareOptions |-> [direction |-> "asc"]]>>)
    /\ query.result = Return(Str(<<"-", "a", ".", "i", "d", ",", "a">>))

\* C24: formatValue never throws: whatever value it is given, it returns a
\* string: null for null, true and false for the booleans, the decimal
\* string unquoted for a number, for a string the string in double quotes
\* with a backslash put in front of every double quote and nothing else
\* changed, for a Date its ISO string in double quotes, and for any other
\* value String(value) in double quotes.
C24_FormatValueIsTotal ==
    Ended("formatValue")
    => LET value == query.arg[1] IN
       /\ query.result.pc = "return"
       /\ query.result.value
            = CASE value = Null -> <<"n", "u", "l", "l">>
                [] value = Bool(TRUE) -> <<"t", "r", "u", "e">>
                [] value = Bool(FALSE) -> <<"f", "a", "l", "s", "e">>
                [] value.kind = "number" -> StringOf(value)
                [] value.kind = "string" ->
                      <<"\"">> \o EscapeQuotes(value.value) \o <<"\"">>
                [] value.kind = "date" ->
                      <<"\"">> \o toISOString(value).value \o <<"\"">>
                [] OTHER -> <<"\"">> \o StringOf(value) \o <<"\"">>

\* The option the loader passed to getFullList under the key k is the value v.
Passes(k, v) ==
    /\ k \in DOMAIN query.result.value.getFullList
    /\ query.result.value.getFullList[k] = v

\* C25: a loader call whose where and orderBy translate returns what
\* getFullList resolves to, called with: filter iff the translated filter is
\* not empty, and then that filter; sort likewise; perPage equal to limit iff
\* a limit is given; expand equal to the factory's expand option when one is
\* configured; and nothing else.
C25_LoaderQueryOptions ==
    (/\ Ended("queryFn")
     /\ query.arg[1] # Undefined
     /\ convertToPocketBaseFilter(query.arg[1].where).pc = "return"
     /\ convertToPocketBaseSort(query.arg[1].orderBy).pc = "return")
    => LET given == query.arg[1]
           filter == convertToPocketBaseFilter(given.where).value
           sort == convertToPocketBaseSort(given.orderBy).value
           options == query.result.value.getFullList
       IN /\ query.result.pc = "return"
          /\ DOMAIN query.result.value = {"getFullList"}
          /\ DOMAIN options \subseteq {"filter", "sort", "perPage", "expand"}
          /\ IF filter.value # <<>> THEN Passes("filter", filter)
             ELSE "filter" \notin DOMAIN options
          /\ IF sort.value # <<>> THEN Passes("sort", sort)
             ELSE "sort" \notin DOMAIN options
          /\ IF given.limit # Undefined THEN Passes("perPage", given.limit)
             ELSE "perPage" \notin DOMAIN options
          /\ query.arg[2] \notin {Undefined, Str(<<>>)} => Passes("expand", query.arg[2])

\* C26: useStore inside a provider, every key being among the provided
\* collections, returns the array of those collections in the order of the
\* keys (of length 1 for one key); outside a provider it throws; and with a
\* key that is not among the provided collections it throws an error that
\* names such a key.
C26_UseStoreReturnsArray ==
    Ended("useStore")
    => LET context == query.arg[1]
           keys == query.arg[2]
       IN IF context = Null THEN query.result.pc = "throw"
          ELSE IF \A i \in 1 .. Len(keys) : keys[i] \in DOMAIN context.value
          THEN query.result
                 = Return(Arr([i \in 1 .. Len(keys) |-> context.value[keys[i]]]))
          ELSE /\ query.result.pc = "throw"
               /\ \E i \in 1 .. Len(keys) :
                     /\ keys[i] \notin DOMAIN context.value
                     /\ keys[i] \in Pieces(query.result.error.message)

\* --------------------------------------- claims on concurrent subscriptions
\* The (collection, key) pair a channel was opened for.
PairOf(h) == <<calls[h.id].c, calls[h.id].k>>

\* C27: in every reachable state at most one channel is open (opened and not
\* yet closed through its handle) for any (collection, key) pair.
C27_AtMostOneOpenChannel ==
    \A h1 \in channels, h2 \in channels : PairOf(h1) = PairOf(h2) => h1 = h2

\* C28: the step in which the initial open of a subscribe call s settles
\* leaves every record made by another call as it was: a success does not
\* store its handle in another record, and a failure neither removes another
\* record from the Map that holds it nor starts a reconnect loop on another
\* record.
C28_SettlingTouchesOnlyItsRecord ==
    [][\A s \in SubIds :
        (opens[s] = "pending" /\ opens'[s] # "pending")
        => \A t \in SubIds \ {s} :
              /\ states'[t] = states[t]
              /\ \A m \in SubIds, key \in Keys : maps[m][key] = t => maps'[m][key] = t
              /\ loops'[s].target # t]_vars

\* No channel open and no reconnect attempt is in flight.
Settled ==
    \A s \in SubIds : opens[s] # "pending" /\ loops[s].pc \notin {"delay", "open"}

\* C29: in every state where no channel open and no reconnect attempt is in
\* flight, the channels open for (collection, key) are: the one the stored
\* handle of the key's record closes when isSubscribed(key) is true, and
\* none when it is false.
C29_OpenChannelIffSubscribed ==
    Settled
    => \A c \in Collections, key \in Keys :
          LET open == {h \in channels : PairOf(h) = <<c, key>>} IN
          IF IsSubscribed(c, KeyArg(key))
          THEN open = {states[RecordOf(c, key)].unsubscribe}
          ELSE open = {}

\* A reconnect loop that has not returned.
Running(s) == loops[s].pc \in {"delay", "open"}

\* At most one reconnect loop is running for any (collection, key) pair.
OneLoopPerKey ==
    \A s1 \in SubIds, s2 \in SubIds :
        (Running(s1) /\ Running(s2) /\ calls[s1].c = calls[s2].c
         /\ calls[s1].k = calls[s2].k) => s1 = s2

\* isReconnecting of a record is true exactly while a loop on it is running.
FlagIffLoop ==
    \A t \in 1 .. nSubs :
        states[t].isReconnecting <=> \E s \in SubIds : Running(s) /\ loops[s].target = t

\* A handleReconnection call that finds no record, or a record whose flag is
\* set, starts no loop, opens no channel and writes no record.
GuardedCallReturns ==
    [][\A s \in SubIds :
        (/\ opens[s] = "pending"
         /\ opens'[s] = "rejected"
         /\ LET state == (RecordOf(calls[s].c, calls[s].k))' IN
            state = NoRef \/ states[state].isReconnecting)
        => /\ loops' = loops
           /\ states' = states
           /\ channels' = channels]_vars

\* C30: at any time at most one reconnect loop is running for a given
\* (collection, key); a handleReconnection call that finds the flag set, or
\* no record, returns without opening a channel or changing state; and
\* isReconnecting is true exactly while a loop on that record is running.
C30_ReconnectGuarded == []OneLoopPerKey /\ []FlagIffLoop /\ GuardedCallReturns

\* ------------------------------------------------ claims on the reconnect loop
\* The delays the claims give the counter values 0..4, in milliseconds.
DelayTable == <<1000, 2000, 4000, 8000, 16000>>

\* C31: a reconnect loop that waits before a reopen attempt waits exactly
\* 1000, 2000, 4000, 8000 or 16000 ms according to the value 0..4 the
\* record's reconnectAttempts has then; a loop makes at most 5 reopen
\* attempts; and reconnectAttempts of every record is within 0..5.
C31_BackoffDelays ==
    /\ \A s \in SubIds :
          /\ loops[s].pc \in {"delay", "open"}
             => /\ loops[s].attempts <= 5
                /\ states[loops[s].target].reconnectAttempts \in 0 .. 4
                /\ loops[s].delay
                     = DelayTable[states[loops[s].target].reconnectAttempts + 1]
          /\ loops[s].pc = "open"
             => loops[s].attempts = states[loops[s].target].reconnectAttempts + 1
    /\ \A t \in SubIds : states[t].reconnectAttempts \in 0 .. 5

\* C31 witness: a loop is making its fifth reopen attempt, after a delay of
\* 16000 ms.
C31_Witness ==
    \E s \in SubIds :
        /\ loops[s].pc = "open"
        /\ loops[s].attempts = 5
        /\ loops[s].delay = 16000
        /\ states[loops[s].target].reconnectAttempts = 4

\* C32: the step in which a reopen attempt of a reconnect loop succeeds
\* stores the handle of the channel it opened in the record the loop holds,
\* sets reconnectAttempts to 0, clears isReconnecting and ends the loop; and
\* a loop that has ended never waits or reopens again.
C32_ReopenSuccessEndsLoop ==
    [][\A s \in SubIds :
        /\ (loops[s].pc = "open" /\ ReopenHandle(s) \in channels' \ channels)
           => /\ states'[loops[s].target]
                   = [unsubscribe |-> ReopenHandle(s), reconnectAttempts |-> 0,
                      isReconnecting |-> FALSE]
              /\ loops'[s].pc = "done"
        /\ loops[s].pc = "done" => loops'[s].pc = "done"]_vars

\* C32 witness: a reopen succeeded: the record holds the reopen handle, its
\* counter is 0, its flag is clear and the loop has ended, while the
\* record's own initial open is still pending.
C32_Witness ==
    \E s \in SubIds, t \in SubIds :
        /\ loops[s].pc = "done"
        /\ ReopenHandle(s) \in channels
        /\ states[t] = [unsubscribe |-> ReopenHandle(s), reconnectAttempts |-> 0,
                        isReconnecting |-> FALSE]
        /\ opens[t] = "pending"

\* The step is unsubscribe(key) or unsubscribeAll() on collection c.
Unsubscribes(c, key) ==
    \/ last'.op = "unsubscribe" /\ last'.c = c /\ last'.k = key
    \/ last'.op = "unsubscribeAll" /\ last'.c = c

\* C33: when the open of an accepted subscribe succeeds while the registry
\* holds the record of that call, the record's placeholder is replaced by the
\* handle of the channel that was opened; from then on an unsubscribe(key) or
\* unsubscribeAll() that finds the record calls that handle and closes the
\* channel; and calling a placeholder closes no channel.
C33_SuccessInstallsRealHandle ==
    [][\A s \in SubIds :
        LET c == calls[s].c
            key == calls[s].k
        IN /\ (opens[s] = "pending" /\ opens'[s] = "resolved" /\ RecordOf(c, key) = s)
              => /\ states'[s].unsubscribe = OpenHandle(s)
                 /\ OpenHandle(s) \in channels'
           /\ (opens[s] = "resolved" /\ RecordOf(c, key) = s /\ Unsubscribes(c, key))
              => /\ OpenHandle(s) \in BagToSet(last'.invoked)
                 /\ OpenHandle(s) \notin channels'
           /\ (states[s].unsubscribe = Placeholder(s) /\ RecordOf(c, key) = s
               /\ last'.op = "unsubscribe" /\ last'.c = c /\ last'.k = key)
              => channels' = channels]_vars

\* C34: a reconnect loop asks the transport for a channel only while the
\* registry holds a record for its (collection, key): once unsubscribe(key)
\* or unsubscribeAll() has removed the record, no reopen is attempted until
\* the key is subscribed again.
C34_NoOpenAfterUnsubscribe ==
    [][\A s \in SubIds :
        (loops[s].pc = "delay" /\ loops'[s].pc = "open")
        => IsSubscribed(calls[s].c, KeyArg(calls[s].k))]_vars

\* ----------------------------------------------- claims on event delivery
\* The deliveries of the remote change n that wrote to the local collection.
AppliedBy(n) ==
    {i \in 1 .. Len(delivered) : delivered[i].change = n /\ batches[i].writes # <<>>}

\* C35: a remote change is applied to the local collection at most once,
\* however many channels of the collection report it; in particular a change
\* to record r is applied once when both the "*" channel and the channel of
\* r are open.
C35_ChangeAppliedOnce ==
    \A n \in Changes(delivered) : Cardinality(AppliedBy(n)) <= 1

\* The channels whose eventHandler writes to instance i of collection c.
Feeding(c, i) ==
    {h \in channels : calls[h.id].c = c /\ calls[h.id].inst = i}

\* C36: whenever isSubscribed() is true on a collection and the transport has
\* opened the channel of its "*" record, every instance create() returned for
\* the collection has an open channel whose events are written to it.
C36_EveryInstanceReceives ==
    \A c \in Collections : \A i \in 1 .. instances[c] :
        (/\ IsSubscribed(c, NoRecordId)
         /\ states[RecordOf(c, "*")].unsubscribe.kind # "placeholder")
            => Feeding(c, i) # {}

\* C38: the delivery of an event whose action is none of create, update and
\* delete runs one batch that makes no write, on top of the earlier batches;
\* it changes nothing of the registry, of the open channels, of the reconnect
\* loops and of the timers, and raises no error.
C38_UnknownActionWritesNothing ==
    [][(/\ Len(delivered') = Len(delivered) + 1
        /\ delivered'[Len(delivered')].action \notin {"create", "update", "delete"})
          => /\ Len(batches') = Len(batches) + 1
             /\ SubSeq(batches', 1, Len(batches)) = batches
             /\ batches'[Len(batches')].writes = <<>>
             /\ UNCHANGED <<subscriptions, maps, states, calls, opens, loops,
                            channels, instances, timers, nSubs, uncaught>>]_vars

\* An event of an unknown action was delivered and its batch is empty.
C38_Witness ==
    \E i \in 1 .. Len(delivered) :
        /\ delivered[i].action \notin {"create", "update", "delete"}
        /\ i <= Len(batches)
        /\ batches[i].writes = <<>>

\* ------------------------------------------- claims on string literals
RECURSIVE BackslashesBefore(_, _)
\* The number of backslashes that stand in a row right in front of s[i].
BackslashesBefore(s, i) ==
    IF i = 1 \/ s[i - 1] # "\\" THEN 0 ELSE 1 + BackslashesBefore(s, i - 1)

\* C39: the literal formatValue returns for a string starts and ends with a
\* double quote, and every double quote between the two has an odd number of
\* backslashes in front of it, so none of them ends the literal.
C39_LiteralNotTerminatedEarly ==
    (/\ Ended("formatValue")
     /\ query.arg[1].kind = "string"
     /\ query.result.pc = "return")
        => LET literal == query.result.value IN
           /\ Len(literal) >= 2
           /\ literal[1] = "\""
           /\ literal[Len(literal)] = "\""
           /\ \A i \in 2 .. Len(literal) - 1 :
                 literal[i] = "\"" => BackslashesBefore(literal, i) % 2 = 1

\* ------------------------------------------- claims on the health check
\* C40: a health-check timer whose record is no longer the one the registry
\* holds under its key is cancelled by its next tick: the Map its callback
\* looks into holds nothing under the key.
C40_TimerOfRemovedRecordCancels ==
    \A s \in timers :
        RecordOf(calls[s].c, calls[s].k) # s
            => maps[calls[s].map][calls[s].k] = NoRef

\* ------------------------------------- claims on the subscription lifecycle
\* The key of the accepted subscribe call s is Active (its record holds a
\* handle of the transport and is not reconnecting) or Absent (no record).
ActiveOrAbsent(s) ==
    /\ s <= nSubs
    /\ LET state == RecordOf(calls[s].c, calls[s].k) IN
       \/ state = NoRef
       \/ /\ states[state].unsubscribe.kind # "placeholder"
          /\ ~states[state].isReconnecting

\* The channel opens asked of the transport because of subscribe call s: its
\* initial open and the reopens of the loop its failure started.
OpenAttempts(s) ==
    (IF opens[s] = "none" THEN 0 ELSE 1) + (IF Running(s) THEN loops[s].attempts ELSE 0)

\* C37: every accepted subscribe call is followed by a state in which its key
\* is Active or Absent; once the application accepts no further call every
\* key stays Active or Absent for good; and a call never causes more than
\* 1 + MAX_RECONNECT_ATTEMPTS channel opens.
C37_SubscribeSettles ==
    /\ \A s \in SubIds : (s <= nSubs) ~> ActiveOrAbsent(s)
    /\ <>[](\A s \in SubIds : s <= nSubs => ActiveOrAbsent(s))
    /\ [](\A s \in SubIds : OpenAttempts(s) <= 1 + MAX_RECONNECT_ATTEMPTS)

\* A key became Active through a reconnect loop: its record holds the handle
\* of a reopen and is not reconnecting.
C37_Witness ==
    \E s \in 1 .. nSubs :
        LET state == RecordOf(calls[s].c, calls[s].k) IN
        /\ state # NoRef
        /\ states[state].unsubscribe.kind = "reopen"
        /\ ~states[state].isReconnecting

====
